---- MODULE Spec2Model ----
(***************************************************************************)
(* Model of scripts/claude_code_run.py: a wrapper that maps a fixed set of *)
(* options to the argument vector of the claude binary, launches it        *)
(* through the `script` pty helper when that helper is on PATH (directly   *)
(* otherwise) and exits with the child's return code.                      *)
(*                                                                         *)
(* Conventions.  An optional value (Python None or a value) is a sequence  *)
(* of length at most one: <<>> is None, <<v>> is the value v.  A run is a  *)
(* chain of steps of main(); pc is the position of the interpreter.  The   *)
(* inputs of a run (command line, environment, file system) are chosen in  *)
(* Init and never change.  The model covers the runs in which the          *)
(* operating system creates the child process that subprocess.run asks for.*)
(***************************************************************************)
EXTENDS Integers, Sequences, FiniteSets, TLC

VARIABLES argv, environ, fs, pc, args, cmd, idx, script_bin, spawned,
          child, returncode, stderr, exit

vars == <<argv, environ, fs, pc, args, cmd, idx, script_bin, spawned,
          child, returncode, stderr, exit>>

\* ------------------------------------------------------------------ bounds

\* Longest passthrough remainder on the command line.
MaxExtra == 2

\* Longest PATH (number of directories) in the search for the helper.
MaxPath == 3

\* ------------------------------------------------------- optional values

None == <<>>

Some(v) == <<v>>

IsNone(o) == o = <<>>

\* Python truthiness of an optional string: None and "" are falsy.
Truthy(o) == o # <<>> /\ o[1] # ""

Range(s) == {s[i] : i \in 1..Len(s)}

\* All sequences over S of length at most n.
SeqUpTo(S, n) == UNION {[1..k -> S] : k \in 0..n}

\* ------------------------------------------------------------- constants

\* os.environ.get("CLAUDE_CODE_BIN", <this>)
FIXED_DEFAULT == "/home/ubuntu/.local/bin/claude"

\* The value options of build_cmd, in the order build_cmd tests them.
ValueOptions == <<"permission_mode", "prompt", "allowedTools", "output_format",
                  "json_schema", "append_system_prompt", "system_prompt",
                  "resume">>

\* The flag token build_cmd emits for each option.
Flag(o) ==
    CASE o = "permission_mode"      -> "--permission-mode"
      [] o = "prompt"               -> "-p"
      [] o = "allowedTools"         -> "--allowedTools"
      [] o = "output_format"        -> "--output-format"
      [] o = "json_schema"          -> "--json-schema"
      [] o = "append_system_prompt" -> "--append-system-prompt"
      [] o = "system_prompt"        -> "--system-prompt"
      [] o = "continue_latest"      -> "--continue"
      [] o = "resume"               -> "--resume"

\* ------------------------------------------------------------ file system

\* pathlib.Path(s): the empty string is the current directory.
PathOf(s) == IF s = "" THEN "." ELSE s

\* Path(p) / name, as a string.
JoinPath(p, name) == IF p = "" THEN name ELSE p \o "/" \o name

\* Path.exists() on the file system f.
PathExists(f, s) == f[PathOf(s)] # "absent"

\* ------------------------------------------------------------- argparse

\* Mutant: `os.environ.get("CLAUDE_CODE_BIN") or FIXED_DEFAULT`, which takes
\* an empty override for an absent one.
DEFAULT_CLAUDE_OrDefault(env) ==
    IF Truthy(env.CLAUDE_CODE_BIN) THEN env.CLAUDE_CODE_BIN[1] ELSE FIXED_DEFAULT

\* DEFAULT_CLAUDE = os.environ.get("CLAUDE_CODE_BIN", FIXED_DEFAULT)
DEFAULT_CLAUDE(env) ==
    IF IsNone(env.CLAUDE_CODE_BIN) THEN FIXED_DEFAULT ELSE env.CLAUDE_CODE_BIN[1]

\* The Namespace before parse_args has run.
NoArgs ==
    [claude_bin |-> "", prompt |-> None, permission_mode |-> None,
     allowedTools |-> None, output_format |-> None, json_schema |-> None,
     append_system_prompt |-> None, system_prompt |-> None,
     continue_latest |-> FALSE, resume |-> None, cwd |-> None, extra |-> <<>>]

\* ap.parse_args(): every option keeps the value given (None when absent),
\* --claude-bin defaults to DEFAULT_CLAUDE, --continue is store_true and the
\* REMAINDER positional takes the rest of the command line verbatim.
parse_args(av, env) ==
    [claude_bin |-> IF IsNone(av.claude_bin) THEN DEFAULT_CLAUDE(env)
                    ELSE av.claude_bin[1],
     prompt |-> av.prompt, permission_mode |-> av.permission_mode,
     allowedTools |-> av.allowedTools, output_format |-> av.output_format,
     json_schema |-> av.json_schema,
     append_system_prompt |-> av.append_system_prompt,
     system_prompt |-> av.system_prompt,
     continue_latest |-> av.continue_latest, resume |-> av.resume,
     cwd |-> av.cwd, extra |-> av.extra]

\* Mutant: every "--" of the remainder is dropped, not only a leading one.
clean_extra_DropAll(extra) == SelectSeq(extra, LAMBDA t : t # "--")

\* "Clean leading -- from extra"
clean_extra(extra) ==
    IF extra # <<>> /\ extra[1] = "--" THEN Tail(extra) ELSE extra

\* ------------------------------------------------------------- build_cmd

\* Mutant: an option that fails its test still gets its flag, with an empty
\* value.
Emit_Placeholder(test, o, val) ==
    IF test THEN <<Flag(o)>> \o val ELSE <<Flag(o), "">>

\* if <test>: cmd += [flag, value]
Emit(test, o, val) == IF test THEN <<Flag(o)>> \o val ELSE <<>>

\* Mutant: the prompt is tested for truth like the other options.
prompt_is_set_Truthy(p) == Truthy(p)

\* if args.prompt is not None
prompt_is_set(p) == ~IsNone(p)

build_cmd(a) ==
    <<a.claude_bin>>
      \o Emit(Truthy(a.permission_mode), "permission_mode", a.permission_mode)
      \o Emit(prompt_is_set(a.prompt), "prompt", a.prompt)
      \o Emit(Truthy(a.allowedTools), "allowedTools", a.allowedTools)
      \o Emit(Truthy(a.output_format), "output_format", a.output_format)
      \o Emit(Truthy(a.json_schema), "json_schema", a.json_schema)
      \o Emit(Truthy(a.append_system_prompt), "append_system_prompt",
              a.append_system_prompt)
      \o Emit(Truthy(a.system_prompt), "system_prompt", a.system_prompt)
      \o Emit(a.continue_latest, "continue_latest", <<>>)
      \o Emit(Truthy(a.resume), "resume", a.resume)
      \o (IF a.extra # <<>> THEN a.extra ELSE <<>>)

\* ---------------------------------------------------------- run_with_pty

\* Tokens of the model that contain a character outside shlex's safe set
\* [A-Za-z0-9_@%+=:,./-] (here: a space).  No token of the model contains a
\* single quote.
UnsafeTokens == {"say hi"}

\* shlex.quote(s)
shlex_quote(s) ==
    IF s = "" THEN "''"
    ELSE IF s \notin UnsafeTokens THEN s
    ELSE "'" \o s \o "'"

RECURSIVE join(_)
\* " ".join(shlex.quote(c) for c in cmd)
join(c) ==
    IF c = <<>> THEN ""
    ELSE IF Len(c) = 1 THEN shlex_quote(c[1])
    ELSE shlex_quote(c[1]) \o " " \o join(Tail(c))

\* [script_bin, "-q", "-c", cmd_str, "/dev/null"]
pty_argv(script, c) == <<script, "-q", "-c", join(c), "/dev/null">>

\* Mutant: the child is started without being waited for (Popen for run).
run_returns_NoWait(ch) == TRUE

\* subprocess.run returns once the child has terminated.
run_returns(ch) == ch.state \in {"exited", "signaled"}

\* proc.returncode: the exit code, or -N for a child killed by signal N.
proc_returncode(ch) ==
    IF ch.state = "exited" THEN Some(ch.n)
    ELSE IF ch.state = "signaled" THEN Some(0 - ch.n)
    ELSE None

\* raise SystemExit(main()): the process exit status is the low 8 bits of the
\* value (None is 0).
SystemExit(rc) == IF IsNone(rc) THEN 0 ELSE rc[1] % 256

\* ---------------------------------------------------------- shutil_which

\* os.environ.get("PATH", "").split(":"); PATH is kept as the list of its
\* ":"-separated fields, so an unset or empty PATH is the one field "".
path_dirs(env) == IF IsNone(env.PATH) THEN <<"">> ELSE env.PATH[1]

\* Mutant: the execute permission is not checked.
is_helper_AnyFile(kind) == kind \in {"file", "file_x"}

\* cand.is_file() and os.access(cand, os.X_OK)
is_helper(kind) == kind = "file_x"

\* ---------------------------------------------------------------- inputs

Dirs == {"", "/usr/bin", "/opt/bin"}

Binaries == {FIXED_DEFAULT, "/opt/claude", "/env/claude"}

Helpers == {JoinPath(d, "script") : d \in Dirs}

AllPaths == {"."} \cup Binaries \cup Helpers

\* What a path is: nothing, a directory, a regular file without or with the
\* execute permission, or an entry whose stat fails with an OSError that
\* is_file() does not swallow.
HelperKinds == {"absent", "dir", "file", "file_x", "oserror"}

\* How the child can terminate.
ExitCodes == {0, 1, 2, 255}

Signals == {9, 15}

NoChild == [state |-> "none", n |-> 0]

NoArgv ==
    [claude_bin |-> None, prompt |-> None, permission_mode |-> None,
     allowedTools |-> None, output_format |-> None, json_schema |-> None,
     append_system_prompt |-> None, system_prompt |-> None,
     continue_latest |-> FALSE, resume |-> None, cwd |-> None, extra |-> <<>>]

\* File systems: the current directory exists, the binaries in bins may or
\* may not, and each helper candidate is of one of the kinds hk allows.
FileSystems(bins, hk) ==
    {f \in [AllPaths -> HelperKinds] :
        /\ f["."] = "dir"
        /\ \A b \in Binaries :
              f[b] \in (IF b \in bins THEN {"absent", "file_x"} ELSE {"absent"})
        /\ \A h \in Helpers : f[h] \in hk[h]}

\* ---------------------------------------------------------------- actions

\* main, line 128: args = ap.parse_args()
Parse ==
    /\ pc = "start"
    /\ args' = parse_args(argv, environ)
    /\ pc' = "clean"
    /\ UNCHANGED <<argv, environ, fs, cmd, idx, script_bin, spawned, child,
                   returncode, stderr, exit>>

\* main, lines 130-134
CleanExtra ==
    /\ pc = "clean"
    /\ args' = [args EXCEPT !.extra = clean_extra(args.extra)]
    /\ pc' = "check"
    /\ UNCHANGED <<argv, environ, fs, cmd, idx, script_bin, spawned, child,
                   returncode, stderr, exit>>

\* main, lines 136-139: the binary is missing; return 2
BinMissing ==
    /\ pc = "check"
    /\ ~PathExists(fs, args.claude_bin)
    /\ stderr' = stderr \o <<"claude binary not found: " \o args.claude_bin,
                            "Tip: set CLAUDE_CODE_BIN=/path/to/claude">>
    /\ returncode' = Some(2)
    /\ pc' = "exit"
    /\ UNCHANGED <<argv, environ, fs, args, cmd, idx, script_bin, spawned,
                   child, exit>>

\* main, line 136: the binary exists
BinFound ==
    /\ pc = "check"
    /\ PathExists(fs, args.claude_bin)
    /\ pc' = "build"
    /\ UNCHANGED <<argv, environ, fs, args, cmd, idx, script_bin, spawned,
                   child, returncode, stderr, exit>>

\* main, line 141: cmd = build_cmd(args); then run_with_pty enters
\* shutil_which
Build ==
    /\ pc = "build"
    /\ cmd' = build_cmd(args)
    /\ idx' = 1
    /\ pc' = "which"
    /\ UNCHANGED <<argv, environ, fs, args, script_bin, spawned, child,
                   returncode, stderr, exit>>

\* shutil_which, one iteration of the loop over the PATH directories
WhichStep ==
    /\ pc = "which"
    /\ idx <= Len(path_dirs(environ))
    /\ LET cand == JoinPath(path_dirs(environ)[idx], "script")
       IN  IF fs[cand] # "oserror" /\ is_helper(fs[cand])
           THEN /\ script_bin' = Some(cand)
                /\ pc' = "launch"
                /\ idx' = idx
           ELSE \* not a match, or except OSError: pass
                /\ idx' = idx + 1
                /\ UNCHANGED <<script_bin, pc>>
    /\ UNCHANGED <<argv, environ, fs, args, cmd, spawned, child, returncode,
                   stderr, exit>>

\* shutil_which, line 94: return None
WhichEnd ==
    /\ pc = "which"
    /\ idx > Len(path_dirs(environ))
    /\ script_bin' = None
    /\ pc' = "launch"
    /\ UNCHANGED <<argv, environ, fs, args, cmd, idx, spawned, child,
                   returncode, stderr, exit>>

\* run_with_pty, lines 75-77: no helper, the vector is launched directly
LaunchDirect ==
    /\ pc = "launch"
    /\ ~Truthy(script_bin)
    /\ spawned' = Append(spawned, [argv |-> cmd, cwd |-> args.cwd])
    /\ child' = [state |-> "running", n |-> 0]
    /\ pc' = "wait"
    /\ UNCHANGED <<argv, environ, fs, args, cmd, idx, script_bin, returncode,
                   stderr, exit>>

\* run_with_pty, line 80: the vector is launched through the helper
LaunchPty ==
    /\ pc = "launch"
    /\ Truthy(script_bin)
    /\ spawned' = Append(spawned, [argv |-> pty_argv(script_bin[1], cmd),
                                   cwd |-> args.cwd])
    /\ child' = [state |-> "running", n |-> 0]
    /\ pc' = "wait"
    /\ UNCHANGED <<argv, environ, fs, args, cmd, idx, script_bin, returncode,
                   stderr, exit>>

\* The child process exits with a code.
ChildExits ==
    /\ child.state = "running"
    /\ \E c \in ExitCodes : child' = [state |-> "exited", n |-> c]
    /\ UNCHANGED <<argv, environ, fs, pc, args, cmd, idx, script_bin, spawned,
                   returncode, stderr, exit>>

\* The child process is killed by a signal.
ChildKilled ==
    /\ child.state = "running"
    /\ \E s \in Signals : child' = [state |-> "signaled", n |-> s]
    /\ UNCHANGED <<argv, environ, fs, pc, args, cmd, idx, script_bin, spawned,
                   returncode, stderr, exit>>

\* run_with_pty, lines 78 and 81: subprocess.run returns; return
\* proc.returncode
Wait ==
    /\ pc = "wait"
    /\ run_returns(child)
    /\ returncode' = proc_returncode(child)
    /\ pc' = "exit"
    /\ UNCHANGED <<argv, environ, fs, args, cmd, idx, script_bin, spawned,
                   child, stderr, exit>>

\* line 146: raise SystemExit(main())
Exit ==
    /\ pc = "exit"
    /\ exit' = Some(SystemExit(returncode))
    /\ pc' = "done"
    /\ UNCHANGED <<argv, environ, fs, args, cmd, idx, script_bin, spawned,
                   child, returncode, stderr>>

\* ------------------------------------------------------- specifications

\* The state before main runs, for the inputs (av, env, f).
Fresh(av, env, f) ==
    /\ argv = av
    /\ environ = env
    /\ fs = f
    /\ pc = "start"
    /\ args = NoArgs
    /\ cmd = <<>>
    /\ idx = 0
    /\ script_bin = None
    /\ spawned = <<>>
    /\ child = NoChild
    /\ returncode = None
    /\ stderr = <<>>
    /\ exit = None

\* Whole runs: the binary option and override, present or absent binaries,
\* a helper that is on PATH or not, and every way the child can terminate.
RunArgvs ==
    {[NoArgv EXCEPT !.claude_bin = b, !.prompt = p, !.cwd = w, !.extra = e] :
        b \in {None, Some(""), Some("/opt/claude")},
        p \in {None, Some("say hi")},
        w \in {None, Some("/work")},
        e \in {<<>>, <<"--", "x">>}}

RunEnvirons ==
    [CLAUDE_CODE_BIN : {None, Some(""), Some("/env/claude")},
     PATH : {None, Some(<<"/usr/bin">>), Some(<<"/opt/bin", "/usr/bin">>)}]

RunFileSystems ==
    FileSystems(Binaries,
                [h \in Helpers |-> IF h = "/usr/bin/script"
                                   THEN {"absent", "file_x"} ELSE {"absent"}])

Init ==
    \E av \in RunArgvs, env \in RunEnvirons, f \in RunFileSystems :
        Fresh(av, env, f)

Next ==
    \/ Parse
    \/ CleanExtra
    \/ BinMissing
    \/ BinFound
    \/ Build
    \/ WhichStep
    \/ WhichEnd
    \/ LaunchDirect
    \/ LaunchPty
    \/ ChildExits
    \/ ChildKilled
    \/ Wait
    \/ Exit

Spec == Init /\ [][Next]_vars

\* build_cmd as a function of the request: every value option absent, empty
\* or set (the two options with a closed list of choices cannot be empty),
\* --continue on or off, every passthrough remainder up to MaxExtra tokens.
ExtraTokens == {"--", "x", "--resume"}

\* The remainders argparse can produce: REMAINDER starts at the first "--" or
\* positional word, so a remainder never starts with an option string.
Remainders ==
    {e \in SeqUpTo(ExtraTokens, MaxExtra) : e = <<>> \/ e[1] \in {"--", "x"}}

BuildArgvs ==
    {[NoArgv EXCEPT !.prompt = p, !.permission_mode = pm, !.allowedTools = at,
                    !.output_format = of, !.json_schema = js,
                    !.append_system_prompt = asp, !.system_prompt = sp,
                    !.continue_latest = ct, !.resume = rs, !.extra = e] :
        p \in {None, Some(""), Some("hi")},
        pm \in {None, Some("plan")},
        at \in {None, Some(""), Some("Read")},
        of \in {None, Some("json")},
        js \in {None, Some(""), Some("{}")},
        asp \in {None, Some(""), Some("terse")},
        sp \in {None, Some(""), Some("sys")},
        ct \in BOOLEAN,
        rs \in {None, Some(""), Some("s1")},
        e \in Remainders}

BuildEnviron == [CLAUDE_CODE_BIN |-> None, PATH |-> None]

BuildFileSystems ==
    FileSystems({FIXED_DEFAULT}, [h \in Helpers |-> {"absent"}])

InitBuild ==
    \E av \in BuildArgvs, f \in BuildFileSystems :
        /\ f[FIXED_DEFAULT] = "absent" => av = NoArgv
        /\ Fresh(av, BuildEnviron, f)

NextBuild ==
    \/ Parse
    \/ CleanExtra
    \/ BinMissing
    \/ BinFound
    \/ Build

SpecBuild == InitBuild /\ [][NextBuild]_vars

\* shutil_which as a function of PATH and the file system: every PATH of up
\* to MaxPath directories (or unset) and every kind of entry at each
\* candidate; the state is the one in which run_with_pty calls it.
WhichEnvirons ==
    [CLAUDE_CODE_BIN : {None},
     PATH : {None} \cup {Some(d) : d \in SeqUpTo(Dirs, MaxPath) \ {<<>>}}]

WhichFileSystems ==
    {f \in FileSystems({FIXED_DEFAULT}, [h \in Helpers |-> HelperKinds]) :
        f[FIXED_DEFAULT] = "file_x"}

InitWhich ==
    \E env \in WhichEnvirons, f \in WhichFileSystems :
        /\ argv = NoArgv
        /\ environ = env
        /\ fs = f
        /\ pc = "which"
        /\ args = parse_args(NoArgv, env)
        /\ cmd = build_cmd(parse_args(NoArgv, env))
        /\ idx = 1
        /\ script_bin = None
        /\ spawned = <<>>
        /\ child = NoChild
        /\ returncode = None
        /\ stderr = <<>>
        /\ exit = None

NextWhich ==
    \/ WhichStep
    \/ WhichEnd

SpecWhich == InitWhich /\ [][NextWhich]_vars

\* ------------------------------------------------------- claim vocabulary

\* main has parsed the command line.
Parsed == pc # "start"

\* build_cmd has returned (the vector always holds the binary path).
Built == cmd # <<>>

\* The program has terminated.
Done == pc = "done"

\* The path names an entry of the file system, as the operating system
\* resolves it: the empty path names nothing.
EntryExists(f, s) == s # "" /\ f[s] # "absent"

\* The two diagnostic lines are on the error stream.
DiagnosticEmitted ==
    /\ Len(stderr) = 2
    /\ stderr[1] = "claude binary not found: " \o args.claude_bin
    /\ stderr[2] = "Tip: set CLAUDE_CODE_BIN=/path/to/claude"

\* The passthrough remainder of the command line with one leading "--"
\* dropped.
Dropped == IF argv.extra # <<>> /\ argv.extra[1] = "--" THEN 1 ELSE 0

\* Number of occurrences of token t in the sequence s.
Count(t, s) == Cardinality({i \in 1..Len(s) : s[i] = t})

\* The named options with a value, and those the request gives a value.
OptionNames == Range(ValueOptions)

Given(o) == ~IsNone(args[o])

RECURSIVE GivenValues(_)
\* The values of the given options, in build_cmd's order, from option k on.
GivenValues(k) ==
    IF k > Len(ValueOptions) THEN <<>>
    ELSE (IF Given(ValueOptions[k]) THEN args[ValueOptions[k]] ELSE <<>>)
         \o GivenValues(k + 1)

RECURSIVE FlagsAndValues(_)
\* Flag and value of every given option, in build_cmd's order, from option k
\* on, with --continue (a single token) before --resume.
FlagsAndValues(k) ==
    IF k > Len(ValueOptions) THEN <<>>
    ELSE (IF ValueOptions[k] = "resume" /\ args.continue_latest
          THEN <<"--continue">> ELSE <<>>)
         \o (IF Given(ValueOptions[k])
             THEN <<Flag(ValueOptions[k])>> \o args[ValueOptions[k]] ELSE <<>>)
         \o FlagsAndValues(k + 1)

\* No directory of the search path holds the helper as an executable file.
NoHelperOnPath ==
    \A i \in 1..Len(path_dirs(environ)) :
        fs[JoinPath(path_dirs(environ)[i], "script")] # "file_x"

\* How the program terminated, in the terms of a child's termination.
ProgramStatus == [state |-> "exited", n |-> exit[1]]

\* The steps of a linear run: parse, clean, check, then fail fast or build,
\* search, launch, wait, exit.
LinearOrder ==
    {<<"start", "clean">>, <<"clean", "check">>, <<"check", "exit">>,
     <<"check", "build">>, <<"build", "which">>, <<"which", "launch">>,
     <<"launch", "wait">>, <<"wait", "exit">>, <<"exit", "done">>}

\* ----------------------------------------------------------------- claims

\* C1 (as claimed): in a run whose resolved binary path names no entry of
\* the file system, no child is ever spawned and the program ends with the
\* diagnostic and exit status 2.
C1_Original ==
    (Parsed /\ ~EntryExists(fs, args.claude_bin)) =>
        /\ spawned = <<>>
        /\ Done => (exit = Some(2) /\ DiagnosticEmitted)

\* C2 (as claimed): when the binary path exists and a child was launched,
\* the program terminates the way the child did: with the child's status,
\* unchanged, whatever that status is.
C2_Original ==
    (Done /\ EntryExists(fs, args.claude_bin) /\ spawned # <<>>) =>
        ProgramStatus = child

\* C3 (as claimed): the vector is the binary path, then flag and value of
\* every option that is set, in the fixed order, --continue as one token,
\* then the passthrough arguments.
C3_Original ==
    Built =>
        cmd = <<args.claude_bin>> \o FlagsAndValues(1) \o args.extra

\* C4 (as claimed): the flag token of an option that is not set occurs
\* nowhere in the vector.
C4_Original ==
    Built =>
        /\ \A o \in OptionNames : ~Given(o) => Flag(o) \notin Range(cmd)
        /\ ~args.continue_latest => "--continue" \notin Range(cmd)

\* C4 (amended): build_cmd adds neither the flag token nor a placeholder for
\* an option that is not set: the flag text occurs in the vector exactly as
\* often as the caller supplied it (as binary path, option value or
\* passthrough argument), and the vector has no more tokens than the binary
\* path, two per given value option, one for --continue and the passthrough
\* arguments.
C4_NoTokenForUnsetOption ==
    Built =>
        LET supplied == <<args.claude_bin>> \o GivenValues(1) \o args.extra
            given == {o \in OptionNames : Given(o)}
        IN  /\ \A o \in OptionNames :
                  ~Given(o) => Count(Flag(o), cmd) = Count(Flag(o), supplied)
            /\ ~args.continue_latest =>
                  Count("--continue", cmd) = Count("--continue", supplied)
            /\ Len(cmd) <= 1 + 2 * Cardinality(given)
                             + (IF args.continue_latest THEN 1 ELSE 0)
                             + Len(args.extra)

\* C4 witness: --resume is not set and its flag text is a passthrough
\* argument of the built vector.
C4_Witness ==
    /\ Built
    /\ ~Given("resume")
    /\ ~Given("prompt")
    /\ "--resume" \in Range(args.extra)
    /\ cmd[Len(cmd)] = "--resume"

\* C5: of the passthrough remainder, one leading "--" is dropped and nothing
\* else; every other token, a later "--" included, is at the end of the
\* vector in its original order and count.
C5_PassthroughPreserved ==
    Built =>
        LET kept == Len(argv.extra) - Dropped
            head == Len(build_cmd([args EXCEPT !.extra = <<>>]))
        IN  /\ Len(cmd) = head + kept
            /\ \A k \in 1..kept : cmd[head + k] = argv.extra[k + Dropped]

\* C5 witness: the remainder is "--" "--"; the vector ends with the second.
C5_Witness ==
    /\ Built
    /\ argv.extra = <<"--", "--">>
    /\ cmd = <<"/home/ubuntu/.local/bin/claude", "--">>

\* C6: the binary path is the --claude-bin value when given, else the value
\* of CLAUDE_CODE_BIN when set (empty included), else the fixed default; it
\* is the path the existence check and the vector use.
C6_BinaryResolution ==
    Parsed =>
        /\ args.claude_bin =
              (IF argv.claude_bin # None THEN argv.claude_bin[1]
               ELSE IF environ.CLAUDE_CODE_BIN # None
                    THEN environ.CLAUDE_CODE_BIN[1]
               ELSE "/home/ubuntu/.local/bin/claude")
        /\ Built => cmd[1] = args.claude_bin

\* C6 witness: no option, the override set to the empty string, resolved to
\* the empty string.
C6_Witness ==
    /\ Done
    /\ argv.claude_bin = None
    /\ environ.CLAUDE_CODE_BIN = Some("")
    /\ args.claude_bin = ""

\* C7 (as claimed): with no helper on the search path the vector (of an
\* existing binary) is launched directly with the given working directory
\* and the program terminates the way that child did.
C7_Original ==
    (Built /\ NoHelperOnPath /\ EntryExists(fs, args.claude_bin)) =>
        /\ pc \in {"wait", "exit", "done"} =>
              spawned = <<[argv |-> cmd, cwd |-> args.cwd]>>
        /\ Done => ProgramStatus = child

\* C8: at most one child is ever created, the program does not terminate
\* while its child runs, and the run is linear: parse, clean, check, then
\* fail fast or build, search, launch, wait, exit.
C8_OneChildLinearRun ==
    /\ [](/\ Len(spawned) <= 1
          /\ Done => child.state # "running"
          /\ exit # None => Done
          /\ spawned # <<>> => pc \in {"wait", "exit", "done"})
    /\ [][/\ pc' # pc => <<pc, pc'>> \in LinearOrder
          /\ spawned # <<>> => spawned' = spawned
          /\ pc = "wait" /\ pc' # pc => child.state # "running"]_vars

\* C8 witness: a finished run with its one child, which was killed.
C8_Witness ==
    /\ Done
    /\ Len(spawned) = 1
    /\ child.state = "signaled"

\* C9: shutil_which returns the candidate of the first search-path directory
\* whose entry is a regular file the user may execute, None exactly when
\* there is none; a directory whose check raises OSError is passed over.
C9_FirstExecutableMatch ==
    pc = "launch" =>
        LET dirs == path_dirs(environ)
            hit(i) == fs[JoinPath(dirs[i], "script")] = "file_x"
        IN  /\ script_bin = None <=> \A i \in 1..Len(dirs) : ~hit(i)
            /\ script_bin # None =>
                  \E i \in 1..Len(dirs) :
                      /\ hit(i)
                      /\ \A j \in 1..(i - 1) : ~hit(j)
                      /\ script_bin[1] = JoinPath(dirs[i], "script")

\* C9 witness: the first directory's check raised OSError, the second holds
\* a file without execute permission, the third is returned.
C9_Witness ==
    /\ pc = "launch"
    /\ Len(path_dirs(environ)) = 3
    /\ fs[JoinPath(path_dirs(environ)[1], "script")] = "oserror"
    /\ fs[JoinPath(path_dirs(environ)[2], "script")] = "file"
    /\ script_bin = Some(JoinPath(path_dirs(environ)[3], "script"))

\* C10: an empty prompt still contributes "-p" and "" (after the permission
\* mode), an absent prompt nothing; an empty --allowedTools, --json-schema,
\* --append-system-prompt, --system-prompt or --resume contributes nothing,
\* as if omitted.
C10_EmptyValues ==
    Built =>
        LET opts == Len(cmd) - Len(args.extra)
            at == IF Truthy(args.permission_mode) THEN 4 ELSE 2
        IN  /\ args.prompt = Some("") =>
                  (at + 1 <= opts /\ cmd[at] = "-p" /\ cmd[at + 1] = "")
            /\ args.prompt = None =>
                  "-p" \notin Range(SubSeq(cmd, 1, opts))
            /\ \A o \in {"allowedTools", "json_schema", "append_system_prompt",
                         "system_prompt", "resume"} :
                  args[o] = Some("") =>
                      /\ Flag(o) \notin Range(SubSeq(cmd, 1, opts))
                      /\ cmd = build_cmd([args EXCEPT ![o] = None])

\* C10 witness: an empty prompt and an empty --resume in one request.
C10_Witness ==
    /\ Built
    /\ args.prompt = Some("")
    /\ args.resume = Some("")
    /\ args.system_prompt = Some("sys")
    /\ cmd = <<"/home/ubuntu/.local/bin/claude", "-p", "", "--system-prompt",
               "sys">>

====
